---- MODULE Spec2Model ----
(***************************************************************************)
(* Model of MaterialDataStore (src/dataindex.py) and of the enumeration    *)
(* helpers of src/ui.py.                                                   *)
(*                                                                         *)
(* Representation.                                                         *)
(*   - A text (a file cell, a query token) is a sequence of one-character  *)
(*     strings, so that strip(), upper(), count('-') and float() are       *)
(*     computed character by character.                                    *)
(*   - A Python float is an integer number of millionths (Scale): the cell *)
(*     "0.04" parses to 40000, and the tolerance 1e-6 is 1.  Only finite   *)
(*     decimal numerals are parsed; "inf", "nan", signs and exponents are  *)
(*     outside the modelled vocabulary and rounding error is not modelled. *)
(*   - An optional value (Python None or a value) is a sequence of length  *)
(*     at most one: None == <<>>, the value v is <<v>>.                    *)
(*   - A dict is a function; dict.get(k, default) is Get.                  *)
(***************************************************************************)
EXTENDS Integers, Sequences, FiniteSets, TLC

None == <<>>
Some(v) == <<v>>

Scale == 10 ^ 6

Abs(x) == IF x < 0 THEN -x ELSE x

Get(d, k, default) == IF k \in DOMAIN d THEN d[k] ELSE default

(***************************************************************************)
(* Text helpers: str.strip(), str.upper(), str.lower(), str.count('-').    *)
(***************************************************************************)
RECURSIVE LStrip(_)
LStrip(s) == IF s # <<>> /\ Head(s) = " " THEN LStrip(Tail(s)) ELSE s

RECURSIVE RStrip(_)
RStrip(s) ==
    IF s # <<>> /\ s[Len(s)] = " " THEN RStrip(SubSeq(s, 1, Len(s) - 1)) ELSE s

Strip(s) == RStrip(LStrip(s))

LowerLetters ==
    <<"a", "b", "c", "d", "e", "f", "g", "h", "i", "j", "k", "l", "m",
      "n", "o", "p", "q", "r", "s", "t", "u", "v", "w", "x", "y", "z">>

UpperLetters ==
    <<"A", "B", "C", "D", "E", "F", "G", "H", "I", "J", "K", "L", "M",
      "N", "O", "P", "Q", "R", "S", "T", "U", "V", "W", "X", "Y", "Z">>

UpperChar(c) ==
    IF \E k \in 1..Len(LowerLetters) : LowerLetters[k] = c
    THEN UpperLetters[CHOOSE k \in 1..Len(LowerLetters) : LowerLetters[k] = c]
    ELSE c

LowerChar(c) ==
    IF \E k \in 1..Len(UpperLetters) : UpperLetters[k] = c
    THEN LowerLetters[CHOOSE k \in 1..Len(UpperLetters) : UpperLetters[k] = c]
    ELSE c

Upper(s) == [i \in 1..Len(s) |-> UpperChar(s[i])]

Lower(s) == [i \in 1..Len(s) |-> LowerChar(s[i])]

RECURSIVE CountChar(_, _)
CountChar(s, c) ==
    IF s = <<>> THEN 0
    ELSE (IF Head(s) = c THEN 1 ELSE 0) + CountChar(Tail(s), c)

\* _norm: (s or "").strip().upper()
_normNoStrip(s) == Upper(s)

_norm(s) == Upper(Strip(s))

(***************************************************************************)
(* float(): decimal numerals  digits [ "." digits ]  and  "." digits, read *)
(* as millionths.  _to_float strips first and turns a failure into None.   *)
(***************************************************************************)
Digits == {"0", "1", "2", "3", "4", "5", "6", "7", "8", "9"}

DigitVal(c) ==
    CASE c = "0" -> 0 [] c = "1" -> 1 [] c = "2" -> 2 [] c = "3" -> 3
      [] c = "4" -> 4 [] c = "5" -> 5 [] c = "6" -> 6 [] c = "7" -> 7
      [] c = "8" -> 8 [] c = "9" -> 9

AllDigits(s) == \A i \in 1..Len(s) : s[i] \in Digits

RECURSIVE IntVal(_)
IntVal(s) ==
    IF s = <<>> THEN 0
    ELSE 10 * IntVal(SubSeq(s, 1, Len(s) - 1)) + DigitVal(s[Len(s)])

\* value of the digits after the point, in millionths
RECURSIVE FracVal(_, _)
FracVal(s, unit) ==
    IF s = <<>> THEN 0
    ELSE DigitVal(Head(s)) * unit + FracVal(Tail(s), unit \div 10)

PointAt(s) == IF \E i \in 1..Len(s) : s[i] = "."
              THEN CHOOSE i \in 1..Len(s) : s[i] = "." /\ \A j \in 1..(i - 1) : s[j] # "."
              ELSE 0

\* float(s) for an already stripped text: Some(value) or None on ValueError
Float(s) ==
    LET p == PointAt(s)
        ip == IF p = 0 THEN s ELSE SubSeq(s, 1, p - 1)
        fp == IF p = 0 THEN <<>> ELSE SubSeq(s, p + 1, Len(s))
    IN  IF AllDigits(ip) /\ AllDigits(fp) /\ Len(ip) + Len(fp) > 0
        THEN Some(IntVal(ip) * Scale + FracVal(fp, Scale \div 10))
        ELSE None

_to_float(x) == Float(Strip(x))

(***************************************************************************)
(* _nearest_idx: index (1-based here) of the first value at the smallest   *)
(* absolute distance to target; None for an empty list.  The scan keeps    *)
(* (best_i, best_d) and advances on a strictly smaller distance; best_d    *)
(* starts at infinity, so the first value always becomes the candidate.    *)
(***************************************************************************)
RECURSIVE NearestIdxScanLast(_, _, _, _, _)
NearestIdxScanLast(values, target, i, best_i, best_d) ==
    IF i > Len(values) THEN best_i
    ELSE LET d == Abs(values[i] - target)
         IN  IF best_d = None \/ d <= best_d[1]
             THEN NearestIdxScanLast(values, target, i + 1, i, Some(d))
             ELSE NearestIdxScanLast(values, target, i + 1, best_i, best_d)

RECURSIVE NearestIdxScan(_, _, _, _, _)
NearestIdxScan(values, target, i, best_i, best_d) ==
    IF i > Len(values) THEN best_i
    ELSE LET d == Abs(values[i] - target)
         IN  IF best_d = None \/ d < best_d[1]
             THEN NearestIdxScan(values, target, i + 1, i, Some(d))
             ELSE NearestIdxScan(values, target, i + 1, best_i, best_d)

_nearest_idx(values, target) ==
    IF values = <<>> THEN None
    ELSE Some(NearestIdxScan(values, target, 1, 1, None))

(***************************************************************************)
(* _nearest_value(pairs, thickness, tol = 1e-6).  A pair is <<t, v>> with  *)
(* v an optional text.                                                     *)
(***************************************************************************)
tol == 1

RECURSIVE SelectSeq2(_, _, _)
SelectSeq2(pairs, thickness, i) ==
    IF i > Len(pairs) THEN <<>>
    ELSE (IF Abs(pairs[i][1] - thickness) <= tol THEN <<pairs[i][2]>> ELSE <<>>)
         \o SelectSeq2(pairs, thickness, i + 1)

\* exact = [v for t, v in pairs if abs(t - thickness) <= tol]
Exact(pairs, thickness) == SelectSeq2(pairs, thickness, 1)

RECURSIVE BestValueScan(_, _, _, _, _)
BestValueScan(pairs, thickness, i, best_v, best_d) ==
    IF i > Len(pairs) THEN best_v
    ELSE LET d == Abs(pairs[i][1] - thickness)
         IN  IF best_d = None \/ d < best_d[1]
             THEN BestValueScan(pairs, thickness, i + 1, pairs[i][2], Some(d))
             ELSE BestValueScan(pairs, thickness, i + 1, best_v, best_d)

_nearest_value_closest_only(pairs, thickness) ==
    IF pairs = <<>> THEN None
    ELSE BestValueScan(pairs, thickness, 1, None, None)

_nearest_value(pairs, thickness) ==
    IF pairs = <<>> THEN None
    ELSE LET exact == Exact(pairs, thickness)
         IN  IF \E i \in 1..Len(exact) : exact[i] # None
             THEN exact[CHOOSE i \in 1..Len(exact) :
                          exact[i] # None /\ \A j \in 1..(i - 1) : exact[j] = None]
             ELSE IF exact # <<>> THEN exact[1]
             ELSE BestValueScan(pairs, thickness, 1, None, None)

(***************************************************************************)
(* _load_correction_tables.  A file is a sequence of rows, a row a         *)
(* sequence of cells (csv.reader with the excel_tab dialect).  The files   *)
(* that exist are the domain of the function `files` (numbers in 1..8).    *)
(***************************************************************************)
IsBlankRow(r) == \A k \in 1..Len(r) : Strip(r[k]) = <<>>

\* rows = [r for r in rows if any((c or "").strip() for c in r)]
NonBlankRows(rows) == SelectSeq(rows, LAMBDA r : ~IsBlankRow(r))

\* thicks: the cells of header[1:] that parse, in order
RECURSIVE HeaderThicks(_, _)
HeaderThicks(header, k) ==
    IF k > Len(header) THEN <<>>
    ELSE _to_float(header[k]) \o HeaderThicks(header, k + 1)

Min(a, b) == IF a < b THEN a ELSE b

\* row_vals = [_to_float(cell) for cell in r[1:1+len(thicks)]]
RowVals(r, thicks) ==
    [k \in 1..Min(Len(r) - 1, Len(thicks)) |-> _to_float(r[k + 1])]

\* one iteration of the loop over rows[1:]; T is the table built so far
CorrRowStepNoLenCheck(T, r) ==
    LET u == _to_float(IF Len(r) > 0 THEN r[1] ELSE <<>>)
    IN  IF u = None THEN T
        ELSE [T EXCEPT !.uncorr = Append(@, u[1]),
                       !.grid = Append(@, RowVals(r, T.thicks))]

CorrRowStep(T, r) ==
    LET u == _to_float(IF Len(r) > 0 THEN r[1] ELSE <<>>)
        row_vals == RowVals(r, T.thicks)
    IN  IF u = None THEN T
        ELSE IF Len(row_vals) = Len(T.thicks)
        THEN [T EXCEPT !.uncorr = Append(@, u[1]), !.grid = Append(@, row_vals)]
        ELSE T

RECURSIVE CorrBody(_, _, _)
CorrBody(T, rows, k) ==
    IF k > Len(rows) THEN T ELSE CorrBody(CorrRowStep(T, rows[k]), rows, k + 1)

\* the table stored for one file whose non-blank rows are `rows` (non-empty)
CorrTableOf(rows) ==
    CorrBody([uncorr |-> <<>>, thicks |-> HeaderThicks(rows[1], 2), grid |-> <<>>],
             rows, 2)

_load_correction_tables(files) ==
    [n \in {m \in (1..8) \cap DOMAIN files : NonBlankRows(files[m]) # <<>>} |->
        CorrTableOf(NonBlankRows(files[n]))]

(***************************************************************************)
(* A call's outcome: the value returned, or the exception raised.          *)
(***************************************************************************)
Ret(v) == [exc |-> "", val |-> v]
Raise(e) == [exc |-> e, val |-> None]

(***************************************************************************)
(* _correct_iacs(table_no, base_iacs, thickness) over self._corr_tables.   *)
(* grid[ri][ci] raises IndexError when the grid has no such cell.          *)
(***************************************************************************)
_correct_iacs(corr_tables, table_no, base_iacs, thickness) ==
    IF table_no \notin DOMAIN corr_tables THEN Ret(None)
    ELSE LET T == corr_tables[table_no]
             unc == T.uncorr
             ths == T.thicks
             grid == T.grid
         IN  IF unc = <<>> \/ ths = <<>> \/ grid = <<>> THEN Ret(None)
             ELSE LET ri == _nearest_idx(unc, base_iacs)
                      ci == _nearest_idx(ths, thickness)
                  IN  IF ri = None \/ ci = None THEN Ret(None)
                      ELSE IF ri[1] > Len(grid) THEN Raise("IndexError")
                      ELSE IF ci[1] > Len(grid[ri[1]]) THEN Raise("IndexError")
                      ELSE Ret(grid[ri[1]][ci[1]])

(***************************************************************************)
(* _build_hardness_table.  Row and column positions are 1-based here; an   *)
(* optional position is None or Some(position).                            *)
(***************************************************************************)
HeaderScanRows == 10
HeaderMinScore == 5
MinHyphens == 2

thicknessLabel == <<"t", "h", "i", "c", "k", "n", "e", "s", "s">>

\* score = sum(1 for c in r if (c or "").count('-') >= 2)
Score(r) == Cardinality({k \in 1..Len(r) : CountChar(r[k], "-") >= MinHyphens})

\* first row of rows[:10] whose score is >= 5, else row 0
HeaderIdx(rows) ==
    LET cand == {k \in 1..Min(Len(rows), HeaderScanRows) : Score(rows[k]) >= HeaderMinScore}
    IN  IF cand = {} THEN 1 ELSE CHOOSE k \in cand : \A m \in cand : k <= m

HasThicknessCell(r) == \E k \in 1..Len(r) : Lower(Strip(r[k])) = thicknessLabel

\* first row holding a cell that is "thickness" after strip().lower()
ThicknessRow(rows) ==
    LET cand == {k \in 1..Len(rows) : HasThicknessCell(rows[k])}
    IN  IF cand = {} THEN None ELSE Some(CHOOSE k \in cand : \A m \in cand : k <= m)

HasPoint(s) == \E k \in 1..Len(s) : s[k] = "."

\* thickness column probed in the row after the thickness row: the first
\* cell that parses and holds a ".", else the first cell that parses
ThicknessCol(rows, thickness_row) ==
    IF thickness_row = None \/ thickness_row[1] + 1 > Len(rows) THEN None
    ELSE LET probe == rows[thickness_row[1] + 1]
             dotted == {k \in 1..Len(probe) :
                          Float(Strip(probe[k])) # None /\ HasPoint(Strip(probe[k]))}
             anyf == {k \in 1..Len(probe) : Float(Strip(probe[k])) # None}
         IN  IF dotted # {} THEN Some(CHOOSE k \in dotted : \A m \in dotted : k <= m)
             ELSE IF anyf # {} THEN Some(CHOOSE k \in anyf : \A m \in anyf : k <= m)
             ELSE None

\* concat_cols: column -> key.upper() for the header cells with two hyphens
ConcatCols(header) ==
    [ci \in {k \in 1..Len(header) :
               Strip(header[k]) # <<>> /\ CountChar(Strip(header[k]), "-") >= MinHyphens}
       |-> Upper(Strip(header[ci]))]

\* data_start
DataStart(header_idx, thickness_row) ==
    IF thickness_row # None THEN thickness_row[1] + 1 ELSE header_idx + 1

\* table = {k: [] for k in concat_cols.values()}
EmptyTable(concat_cols) ==
    [key \in {concat_cols[ci] : ci \in DOMAIN concat_cols} |-> <<>>]

\* the cell text stored for column ci of row r: stripped, None when empty or missing
CellOrNone(r, ci) ==
    LET val == Strip(IF ci <= Len(r) THEN r[ci] ELSE <<>>)
    IN  IF val = <<>> THEN None ELSE Some(val)

\* the entries one row appends to the series of `key`, in column order
RECURSIVE RowEntries(_, _, _, _, _)
RowEntries(r, t, concat_cols, key, ci) ==
    IF ci > Len(r) /\ \A c \in DOMAIN concat_cols : c < ci THEN <<>>
    ELSE (IF ci \in DOMAIN concat_cols /\ concat_cols[ci] = key
          THEN << <<t, CellOrNone(r, ci)>> >> ELSE <<>>)
         \o RowEntries(r, t, concat_cols, key, ci + 1)

\* the thickness of a body row: None when the row is skipped
RowThickness(r, thickness_col) ==
    IF thickness_col = None \/ thickness_col[1] > Len(r) THEN None
    ELSE Float(Strip(r[thickness_col[1]]))

\* one iteration of the loop over rows[data_start:]
HardRowStepFirstColOnly(table, r, thickness_col, concat_cols) ==
    LET t == RowThickness(r, thickness_col)
        first == IF DOMAIN concat_cols = {} THEN 0
                 ELSE CHOOSE c \in DOMAIN concat_cols : \A m \in DOMAIN concat_cols : c <= m
    IN  IF t = None THEN table
        ELSE [key \in DOMAIN table |->
                IF key = concat_cols[first]
                THEN Append(table[key], <<t[1], CellOrNone(r, first)>>)
                ELSE table[key]]

HardRowStep(table, r, thickness_col, concat_cols) ==
    LET t == RowThickness(r, thickness_col)
    IN  IF t = None THEN table
        ELSE [key \in DOMAIN table |->
                table[key] \o RowEntries(r, t[1], concat_cols, key, 1)]

\* list.sort(key = thickness): a stable sort, as an insertion of each entry
\* after the entries already placed whose thickness is not larger
InsertUnstable(sorted, e) ==
    LET before == SelectSeq(sorted, LAMBDA x : x[1] < e[1])
        after == SelectSeq(sorted, LAMBDA x : x[1] >= e[1])
    IN  before \o <<e>> \o after

InsertByThickness(sorted, e) ==
    LET before == SelectSeq(sorted, LAMBDA x : x[1] <= e[1])
        after == SelectSeq(sorted, LAMBDA x : x[1] > e[1])
    IN  before \o <<e>> \o after

RECURSIVE SortFrom(_, _, _)
SortFrom(pairs, k, sorted) ==
    IF k > Len(pairs) THEN sorted
    ELSE SortFrom(pairs, k + 1, InsertByThickness(sorted, pairs[k]))

SortByThickness(pairs) == SortFrom(pairs, 1, <<>>)

SortTable(table) == [key \in DOMAIN table |-> SortByThickness(table[key])]

RECURSIVE HardBody(_, _, _, _, _)
HardBody(table, rows, k, thickness_col, concat_cols) ==
    IF k > Len(rows) THEN table
    ELSE HardBody(HardRowStep(table, rows[k], thickness_col, concat_cols),
                  rows, k + 1, thickness_col, concat_cols)

_build_hardness_table(rows) ==
    IF rows = <<>> THEN <<>>
    ELSE LET header_idx == HeaderIdx(rows)
             thickness_row == ThicknessRow(rows)
             thickness_col == ThicknessCol(rows, thickness_row)
             concat_cols == ConcatCols(rows[header_idx])
         IN  SortTable(HardBody(EmptyTable(concat_cols), rows,
                                DataStart(header_idx, thickness_row),
                                thickness_col, concat_cols))

(***************************************************************************)
(* _read_tsv_dicts: the header and one dict per later row, each row padded *)
(* with "" or truncated to the header's length.  A dict is keyed by the    *)
(* header cells; of two columns with the same header text the later wins.  *)
(***************************************************************************)
Put(d, k, v) == [x \in DOMAIN d \cup {k} |-> IF x = k THEN v ELSE d[x]]

LastIndex(S) == CHOOSE k \in S : \A m \in S : m <= k

PadRow(r, L) == [k \in 1..L |-> IF k <= Len(r) THEN r[k] ELSE <<>>]

RowDict(header, r) ==
    LET padded == PadRow(r, Len(header))
    IN  [h \in {header[k] : k \in 1..Len(header)} |->
            padded[LastIndex({k \in 1..Len(header) : header[k] = h})]]

\* cols = {c.strip().lower(): c for c in header}
Cols(header) ==
    [name \in {Lower(Strip(header[k])) : k \in 1..Len(header)} |->
        header[LastIndex({k \in 1..Len(header) : Lower(Strip(header[k])) = name})]]

n_spec == <<"s", "p", "e", "c">>
n_material == <<"m", "a", "t", "e", "r", "i", "a", "l">>
n_temper == <<"t", "e", "m", "p", "e", "r">>
n_min == <<"m", "i", "n">>
n_max == <<"m", "a", "x">>
n_concat == <<"c", "o", "n", "c", "a", "t">>
n_bare == <<"b", "a", "r", "e">>
n_clad == <<"c", "l", "a", "d">>

(***************************************************************************)
(* _build_conductivity_index: {(SPEC, MATERIAL, TEMPER): (min, max)}, or   *)
(* ValueError when a required column is missing.                           *)
(***************************************************************************)
CondRowStep(idx, cols, row) ==
    LET spec == _norm(row[cols[n_spec]])
        mat == _norm(row[cols[n_material]])
        temp == _norm(row[cols[n_temper]])
    IN  IF spec = <<>> \/ mat = <<>> \/ temp = <<>> THEN idx
        ELSE Put(idx, <<spec, mat, temp>>,
                 <<_to_float(row[cols[n_min]]), _to_float(row[cols[n_max]])>>)

RECURSIVE CondBody(_, _, _, _)
CondBody(idx, cols, rows, k) ==
    IF k > Len(rows) THEN idx
    ELSE CondBody(CondRowStep(idx, cols, RowDict(rows[1], rows[k])), cols, rows, k + 1)

_build_conductivity_index(rows) ==
    LET header == IF rows = <<>> THEN <<>> ELSE rows[1]
        cols == Cols(header)
    IN  IF {n_spec, n_material, n_temper, n_min, n_max} \subseteq DOMAIN cols
        THEN Ret(CondBody(<<>>, cols, rows, 2))
        ELSE Raise("ValueError")

(***************************************************************************)
(* _load_tabcodes: {CONCAT: {"BARE": int|None, "CLAD": int|None}}.         *)
(***************************************************************************)
StartsWith(s, prefix) ==
    Len(s) >= Len(prefix) /\ SubSeq(s, 1, Len(prefix)) = prefix

\* parse_code: None for "", for "not..." and for what float() rejects,
\* else int(float(s))
parse_code(x) ==
    LET s == Strip(x)
    IN  IF s = <<>> \/ StartsWith(Lower(s), <<"n", "o", "t">>) THEN None
        ELSE IF Float(s) = None THEN None
        ELSE Some(Float(s)[1] \div Scale)

TabRowStep(tab, cols, row) ==
    Put(tab, _norm(row[cols[n_concat]]),
        [BARE |-> parse_code(row[cols[n_bare]]), CLAD |-> parse_code(row[cols[n_clad]])])

RECURSIVE TabBody(_, _, _, _)
TabBody(tab, cols, rows, k) ==
    IF k > Len(rows) THEN tab
    ELSE TabBody(TabRowStep(tab, cols, RowDict(rows[1], rows[k])), cols, rows, k + 1)

_load_tabcodes(rows) ==
    LET header == IF rows = <<>> THEN <<>> ELSE rows[1]
        cols == Cols(header)
    IN  IF {n_concat, n_bare, n_clad} \subseteq DOMAIN cols
        THEN Ret(TabBody(<<>>, cols, rows, 2))
        ELSE Raise("ValueError")

(***************************************************************************)
(* search_all(spec, material, temper, thickness, surface) over the indices *)
(* of `self`; thickness is numeric, so float(thickness) is the value.      *)
(***************************************************************************)
BARE == <<"B", "A", "R", "E">>

\* concat = f"{spec_u}-{mat_u}-{temp_u}"
Concat(spec_u, mat_u, temp_u) == spec_u \o <<"-">> \o mat_u \o <<"-">> \o temp_u

\* the MaterialKey and the composite key search_all forms from its arguments
MaterialKey(spec, material, temper) == <<_norm(spec), _norm(material), _norm(temper)>>

CompositeKey(spec, material, temper) ==
    Concat(_norm(spec), _norm(material), _norm(temper))

NoCodes == [BARE |-> None, CLAD |-> None]

\* code = self._tabcodes.get(concat, {}).get("BARE" or "CLAD")
CodeAlwaysBare(self, concat, surface) == Get(self.tabcodes, concat, NoCodes).BARE

Code(self, concat, surface) ==
    IF _norm(surface) = BARE
    THEN Get(self.tabcodes, concat, NoCodes).BARE
    ELSE Get(self.tabcodes, concat, NoCodes).CLAD

\* one corrected bound: corrected = base, replaced by the lookup when a code
\* and the base bound are present
Corrected(self, code, base, t) ==
    IF code # None /\ base # None
    THEN _correct_iacs(self.corr_tables, code[1], base[1], t)
    ELSE Ret(base)

search_all(self, spec, material, temper, thickness, surface) ==
    LET key_t == MaterialKey(spec, material, temper)
        base == Get(self.cond_idx, key_t, <<None, None>>)
        concat == CompositeKey(spec, material, temper)
        bare == _norm(surface) = BARE
        hmin_pairs == IF bare THEN Get(self.bare_min, concat, <<>>)
                      ELSE Get(self.clad_min, concat, <<>>)
        hmax_pairs == IF bare THEN Get(self.bare_max, concat, <<>>)
                      ELSE Get(self.clad_max, concat, <<>>)
        code == Code(self, concat, surface)
        t == thickness
        hard_min == _nearest_value(hmin_pairs, t)
        hard_max == _nearest_value(hmax_pairs, t)
        corrected_min == Corrected(self, code, base[1], t)
        corrected_max == Corrected(self, code, base[2], t)
    IN  IF corrected_min.exc # "" THEN Raise(corrected_min.exc)
        ELSE IF corrected_max.exc # "" THEN Raise(corrected_max.exc)
        ELSE Ret([CorrectedMin |-> corrected_min.val,
                  CorrectedMax |-> corrected_max.val,
                  HardnessMin |-> hard_min,
                  HardnessMax |-> hard_max])

(***************************************************************************)
(* ui.py enumeration helpers.  Each returns sorted(set); the list is       *)
(* represented by the set of its elements.                                 *)
(***************************************************************************)
list_specs(self) == {k[1] : k \in DOMAIN self.cond_idx}

list_materials(self, spec) ==
    {k[2] : k \in {x \in DOMAIN self.cond_idx : x[1] = Upper(Strip(spec))}}

list_tempers(self, spec, material) ==
    {k[3] : k \in {x \in DOMAIN self.cond_idx :
                     x[1] = Upper(Strip(spec)) /\ x[2] = Upper(Strip(material))}}

list_thicknesses(self, spec, material, temper, surface) ==
    LET concat == Concat(Upper(Strip(spec)), Upper(Strip(material)), Upper(Strip(temper)))
        bare == Upper(Strip(surface)) = BARE
        pairs_min == IF bare THEN Get(self.bare_min, concat, <<>>)
                     ELSE Get(self.clad_min, concat, <<>>)
        pairs_max == IF bare THEN Get(self.bare_max, concat, <<>>)
                     ELSE Get(self.clad_max, concat, <<>>)
    IN  {pairs_min[k][1] : k \in 1..Len(pairs_min)}
        \cup {pairs_max[k][1] : k \in 1..Len(pairs_max)}

(***************************************************************************)
(* State.  data_dir holds the rows of the files read by __init__; the      *)
(* seven indices are the fields of MaterialDataStore; pc is the position   *)
(* of __init__ ("ready" once the store is built, "failed" when it raised); *)
(* call and outcome are the last public call and what it returned.         *)
(* rows .. table are the locals of one run of a loader, stepped row by row *)
(* (specifications SpecCorr and SpecHard).                                 *)
(***************************************************************************)
VARIABLES data_dir, _cond_idx, _bare_min, _bare_max, _clad_min, _clad_max,
          _tabcodes, _corr_tables, pc, call, outcome,
          rows, i, lpc, T, header_idx, thickness_row, thickness_col,
          concat_cols, table

indexVars == <<_cond_idx, _bare_min, _bare_max, _clad_min, _clad_max,
               _tabcodes, _corr_tables>>

storeVars == <<data_dir, _cond_idx, _bare_min, _bare_max, _clad_min, _clad_max,
               _tabcodes, _corr_tables, pc>>

loaderVars == <<rows, i, lpc, T, header_idx, thickness_row, thickness_col,
                concat_cols, table>>

vars == <<data_dir, _cond_idx, _bare_min, _bare_max, _clad_min, _clad_max,
          _tabcodes, _corr_tables, pc, call, outcome,
          rows, i, lpc, T, header_idx, thickness_row, thickness_col,
          concat_cols, table>>

Self ==
    [cond_idx |-> _cond_idx, bare_min |-> _bare_min, bare_max |-> _bare_max,
     clad_min |-> _clad_min, clad_max |-> _clad_max, tabcodes |-> _tabcodes,
     corr_tables |-> _corr_tables]

Pending == [exc |-> "pending", val |-> None]

EmptyT == [uncorr |-> <<>>, thicks |-> <<>>, grid |-> <<>>]

LoaderIdle ==
    /\ rows = <<>> /\ i = 0 /\ lpc = "idle" /\ T = EmptyT
    /\ header_idx = 0 /\ thickness_row = None /\ thickness_col = None
    /\ concat_cols = <<>> /\ table = <<>>

StoreIdle ==
    /\ data_dir = <<>> /\ pc = "idle"
    /\ _cond_idx = <<>> /\ _bare_min = <<>> /\ _bare_max = <<>>
    /\ _clad_min = <<>> /\ _clad_max = <<>> /\ _tabcodes = <<>>
    /\ _corr_tables = <<>>

(***************************************************************************)
(* The data files the store is built from in specification Spec.           *)
(***************************************************************************)
CondFileA ==
    << <<<<"s", "p", "e", "c">>, <<"m", "a", "t", "e", "r", "i", "a", "l">>, <<"t", "e", "m", "p", "e", "r">>, <<"m", "i", "n">>, <<"m", "a", "x">>>>,
       <<<<" ", "x", "2", " ">>, <<"7", "5">>, <<"t", "6">>, <<"3", "0", ".", "0">>, <<"4", "5", ".", "0">>>>,
       <<<<"X", "2">>, <<"7", "6">>, <<"T", "6">>, <<"3", "0", ".", "0">>, <<>>>>,
       <<<<"X", "2">>, <<"7", "5">>, <<>>, <<"1">>, <<"2">>>> >>

CondFileB ==
    << <<<<"M", "a", "x">>, <<"M", "I", "N", " ">>, <<"T", "e", "m", "p", "e", "r">>, <<"M", "a", "t", "e", "r", "i", "a", "l">>, <<"S", "p", "e", "c">>>>,
       <<<<"4", "5", ".", "0">>, <<"2", "5">>, <<"T", "6">>, <<"7", "5">>, <<"X", "2">>>>,
       <<<<"4", "5", ".", "0">>, <<"3", "0">>, <<"t", "6">>, <<"7", "5">>, <<"x", "2">>>>,
       <<<<"n", "/", "a">>, <<"3", "5">>, <<"T", "6">>, <<"7", "6">>, <<"X", "2">>>>,
       <<<<"3", "5">>>> >>

CondFileC ==
    << <<<<"s", "p", "e", "c">>, <<"m", "a", "t", "e", "r", "i", "a", "l">>, <<"t", "e", "m", "p", "e", "r">>, <<"m", "i", "n">>>>,
       <<<<"X", "2">>, <<"7", "5">>, <<"T", "6">>, <<"3", "0", ".", "0">>>> >>

TabFileA ==
    << <<<<"c", "o", "n", "c", "a", "t">>, <<"b", "a", "r", "e">>, <<"c", "l", "a", "d">>>>,
       <<<<"X", "2", "-", "7", "5", "-", "T", "6">>, <<"3">>, <<"N", "O", "T", " ", "A", "P", "P", "L", "I", "C", "A", "B", "L", "E">>>>,
       <<<<" ", "x", "2", "-", "7", "6", "-", "t", "6">>, <<"6", ".", "0">>, <<"2">>>> >>

TabFileB ==
    << <<<<"C", "L", "A", "D">>, <<"C", "o", "n", "c", "a", "t">>, <<"B", "A", "R", "E">>>>,
       <<<<"3">>, <<"X", "2", "-", "7", "5", "-", "T", "6">>, <<"4">>>>,
       <<<<"a", "b", "c">>, <<"X", "2", "-", "7", "6", "-", "T", "6">>, <<>>>> >>

TabFileC ==
    << <<<<"c", "o", "n", "c", "a", "t">>, <<"b", "a", "r", "e">>>>,
       <<<<"X", "2", "-", "7", "5", "-", "T", "6">>, <<"3">>>> >>

CorrFile3A ==
    << <<<<"x">>, <<"0", ".", "0", "2">>, <<"0", ".", "0", "4">>>>,
       <<<<"2", "5">>, <<"1">>, <<"2">>>>,
       <<<<"3", "0">>, <<"3">>, <<"4">>>>,
       <<<<"3", "5">>, <<"5">>, <<"6">>>> >>

CorrFile1A ==
    << <<<<"x">>, <<"0", ".", "0", "2">>, <<"n">>, <<"0", ".", "0", "4">>>>,
       <<<<"2", "5">>, <<"1">>, <<"9">>, <<"2">>>>,
       <<<<"3", "0">>, <<"3">>, <<"9">>, <<"4">>>> >>

CorrFile3B ==
    << <<<<>>, <<>>>>,
       <<<<"x">>, <<"0", ".", "0", "2">>, <<"0", ".", "0", "4">>>>,
       <<<<"2", "5">>, <<"1">>, <<>>>>,
       <<<<"3", "0">>, <<"3">>>>,
       <<<<"z", "z">>, <<"1">>, <<"2">>>>,
       <<<<"3", "5">>, <<"5">>, <<"6">>, <<"7">>>> >>

CorrFile2B ==
    << <<<<"x">>, <<"0", ".", "0", "2">>>> >>

CorrFile6B ==
    << <<<<"x">>, <<"y">>>>,
       <<<<"2", "5">>>> >>

CorrFile5B ==
    << <<<<>>, <<" ">>>> >>

CorrDirA == [n \in {1, 3} |-> IF n = 1 THEN CorrFile1A ELSE CorrFile3A]

CorrDirB ==
    [n \in {2, 3, 5, 6} |->
        CASE n = 2 -> CorrFile2B [] n = 3 -> CorrFile3B
          [] n = 5 -> CorrFile5B [] n = 6 -> CorrFile6B]

CorrDirC == <<>>

HardFileA ==
    << <<<<>>, <<>>, <<"X", "2", "-", "7", "5", "-", "T", "6">>, <<"x", "2", "-", "7", "6", "-", "t", "6", " ">>, <<"A", "-", "B", "-", "C">>, <<"A", "-", "B", "-", "D">>, <<"A", "-", "B", "-", "E">>>>,
       <<<<>>, <<"T", "h", "i", "c", "k", "n", "e", "s", "s">>>>,
       <<<<"a">>, <<"0", ".", "0", "4">>, <<"1", "5">>, <<"1", "6">>>>,
       <<<<"b">>, <<"0", ".", "0", "2">>, <<>>, <<"1", "2">>, <<"z", "z">>>>,
       <<<<"c">>, <<"n", "/", "a">>, <<"9", "9">>>>,
       <<<<"d">>, <<"0", ".", "0", "4">>, <<>>, <<"1", "7">>>> >>

HardFileB == <<>>

HardFileC ==
    << <<<<"t", "i", "t", "l", "e">>>>,
       <<<<>>, <<>>, <<"X", "2", "-", "7", "5", "-", "T", "6">>, <<"x", "2", "-", "7", "6", "-", "t", "6", " ">>, <<"A", "-", "B", "-", "C">>, <<"A", "-", "B", "-", "D">>, <<"A", "-", "B", "-", "E">>>>,
       <<<<"a">>, <<"0", ".", "0", "4">>, <<"1", "5">>, <<"1", "6">>>> >>

HardFileD ==
    << <<<<>>, <<>>, <<"X", "2", "-", "7", "5", "-", "T", "6">>, <<"x", "2", "-", "7", "6", "-", "t", "6", " ">>, <<"A", "-", "B", "-", "C">>, <<"A", "-", "B", "-", "D">>, <<"A", "-", "B", "-", "E">>>>,
       <<<<" ", "T", "H", "I", "C", "K", "N", "E", "S", "S", " ">>>>,
       <<<<"1">>, <<"0", ".", "0", "3", "9", "9", "9", "9">>, <<>>>>,
       <<<<"2">>, <<"0", ".", "0", "4">>, <<"2", "0">>, <<"2", "1">>>>,
       <<<<"3">>, <<"0", ".", "0", "8">>, <<"3", "0">>, <<>>>> >>

DataDirs ==
    {[conductivity |-> c, tabcodes |-> tc, corr |-> cd,
      bare_min |-> h[1], bare_max |-> h[2], clad_min |-> h[3], clad_max |-> h[4]] :
        c \in {CondFileA, CondFileB, CondFileC},
        tc \in {TabFileA, TabFileB, TabFileC},
        cd \in {CorrDirA, CorrDirB, CorrDirC},
        h \in {<<HardFileA, HardFileD, HardFileB, HardFileC>>}}

(***************************************************************************)
(* Specification Spec: __init__ builds the seven indices in order, then    *)
(* the presentation layer calls search_all and the enumeration helpers.    *)
(***************************************************************************)
Init ==
    /\ data_dir \in DataDirs
    /\ pc = "build_conductivity"
    /\ _cond_idx = <<>> /\ _bare_min = <<>> /\ _bare_max = <<>>
    /\ _clad_min = <<>> /\ _clad_max = <<>> /\ _tabcodes = <<>>
    /\ _corr_tables = <<>>
    /\ call = [fn |-> "__init__"]
    /\ outcome = Pending
    /\ LoaderIdle

BuildConductivityIndex ==
    /\ pc = "build_conductivity"
    /\ LET r == _build_conductivity_index(data_dir.conductivity)
       IN  IF r.exc = ""
           THEN /\ _cond_idx' = r.val
                /\ pc' = "build_bare_min"
                /\ UNCHANGED outcome
           ELSE /\ pc' = "failed"
                /\ outcome' = r
                /\ UNCHANGED _cond_idx
    /\ UNCHANGED <<data_dir, _bare_min, _bare_max, _clad_min, _clad_max,
                   _tabcodes, _corr_tables, call, loaderVars>>

BuildBareMin ==
    /\ pc = "build_bare_min"
    /\ _bare_min' = _build_hardness_table(data_dir.bare_min)
    /\ pc' = "build_bare_max"
    /\ UNCHANGED <<data_dir, _cond_idx, _bare_max, _clad_min, _clad_max,
                   _tabcodes, _corr_tables, call, outcome, loaderVars>>

BuildBareMax ==
    /\ pc = "build_bare_max"
    /\ _bare_max' = _build_hardness_table(data_dir.bare_max)
    /\ pc' = "build_clad_min"
    /\ UNCHANGED <<data_dir, _cond_idx, _bare_min, _clad_min, _clad_max,
                   _tabcodes, _corr_tables, call, outcome, loaderVars>>

BuildCladMin ==
    /\ pc = "build_clad_min"
    /\ _clad_min' = _build_hardness_table(data_dir.clad_min)
    /\ pc' = "build_clad_max"
    /\ UNCHANGED <<data_dir, _cond_idx, _bare_min, _bare_max, _clad_max,
                   _tabcodes, _corr_tables, call, outcome, loaderVars>>

BuildCladMax ==
    /\ pc = "build_clad_max"
    /\ _clad_max' = _build_hardness_table(data_dir.clad_max)
    /\ pc' = "load_tabcodes"
    /\ UNCHANGED <<data_dir, _cond_idx, _bare_min, _bare_max, _clad_min,
                   _tabcodes, _corr_tables, call, outcome, loaderVars>>

LoadTabcodes ==
    /\ pc = "load_tabcodes"
    /\ LET r == _load_tabcodes(data_dir.tabcodes)
       IN  IF r.exc = ""
           THEN /\ _tabcodes' = r.val
                /\ pc' = "load_correction_tables"
                /\ UNCHANGED outcome
           ELSE /\ pc' = "failed"
                /\ outcome' = r
                /\ UNCHANGED _tabcodes
    /\ UNCHANGED <<data_dir, _cond_idx, _bare_min, _bare_max, _clad_min, _clad_max,
                   _corr_tables, call, loaderVars>>

LoadCorrectionTables ==
    /\ pc = "load_correction_tables"
    /\ _corr_tables' = _load_correction_tables(data_dir.corr)
    /\ pc' = "ready"
    /\ outcome' = Ret(None)
    /\ UNCHANGED <<data_dir, _cond_idx, _bare_min, _bare_max, _clad_min, _clad_max,
                   _tabcodes, call, loaderVars>>

\* the arguments the presentation layer passes
QuerySpecs == {<<"X", "2">>, <<" ", "x", "2", " ">>, <<"X", "3">>}

QueryMaterials == {<<"7", "5">>, <<"7", "6", " ">>}

QueryTempers == {<<"T", "6">>, <<"t", "6", " ">>}

QuerySurfaces == {<<"b", "a", "r", "e">>, <<" ", "B", "a", "r", "e", " ">>, <<"c", "l", "a", "d">>}

QueryThicknesses == {30000, 40000, 40001}

\* a search that registers the composite key it looked up (dict.setdefault
\* in place of dict.get)
SearchAllRegistering ==
    /\ pc = "ready"
    /\ \E spec \in QuerySpecs, material \in QueryMaterials, temper \in QueryTempers,
          thickness \in QueryThicknesses, surface \in QuerySurfaces :
          /\ call' = [fn |-> "search_all", spec |-> spec, material |-> material,
                      temper |-> temper, thickness |-> thickness, surface |-> surface]
          /\ outcome' = search_all(Self, spec, material, temper, thickness, surface)
          /\ _tabcodes' =
                LET concat == CompositeKey(spec, material, temper)
                IN  IF concat \in DOMAIN _tabcodes THEN _tabcodes
                    ELSE Put(_tabcodes, concat, NoCodes)
    /\ UNCHANGED <<data_dir, _cond_idx, _bare_min, _bare_max, _clad_min, _clad_max,
                   _corr_tables, pc, loaderVars>>

SearchAll ==
    /\ pc = "ready"
    /\ \E spec \in QuerySpecs, material \in QueryMaterials, temper \in QueryTempers,
          thickness \in QueryThicknesses, surface \in QuerySurfaces :
          /\ call' = [fn |-> "search_all", spec |-> spec, material |-> material,
                      temper |-> temper, thickness |-> thickness, surface |-> surface]
          /\ outcome' = search_all(Self, spec, material, temper, thickness, surface)
    /\ UNCHANGED <<storeVars, loaderVars>>

ListSpecs ==
    /\ pc = "ready"
    /\ call' = [fn |-> "list_specs"]
    /\ outcome' = Ret(list_specs(Self))
    /\ UNCHANGED <<storeVars, loaderVars>>

ListMaterials ==
    /\ pc = "ready"
    /\ \E spec \in QuerySpecs :
          /\ call' = [fn |-> "list_materials", spec |-> spec]
          /\ outcome' = Ret(list_materials(Self, spec))
    /\ UNCHANGED <<storeVars, loaderVars>>

ListTempers ==
    /\ pc = "ready"
    /\ \E spec \in QuerySpecs, material \in QueryMaterials :
          /\ call' = [fn |-> "list_tempers", spec |-> spec, material |-> material]
          /\ outcome' = Ret(list_tempers(Self, spec, material))
    /\ UNCHANGED <<storeVars, loaderVars>>

ListThicknesses ==
    /\ pc = "ready"
    /\ \E spec \in QuerySpecs, material \in QueryMaterials, temper \in QueryTempers,
          surface \in QuerySurfaces :
          /\ call' = [fn |-> "list_thicknesses", spec |-> spec, material |-> material,
                      temper |-> temper, surface |-> surface]
          /\ outcome' = Ret(list_thicknesses(Self, spec, material, temper, surface))
    /\ UNCHANGED <<storeVars, loaderVars>>

Next ==
    \/ BuildConductivityIndex
    \/ BuildBareMin
    \/ BuildBareMax
    \/ BuildCladMin
    \/ BuildCladMax
    \/ LoadTabcodes
    \/ LoadCorrectionTables
    \/ SearchAll
    \/ ListSpecs
    \/ ListMaterials
    \/ ListTempers
    \/ ListThicknesses

Spec == Init /\ [][Next]_vars

(***************************************************************************)
(* Properties of search_all, stated on the last call and its outcome.      *)
(***************************************************************************)
Searched == pc = "ready" /\ call.fn = "search_all"

\* trim + uppercase of a token, computed apart from _norm
TrimUpper(s) == Upper(Strip(s))

CallKey == <<TrimUpper(call.spec), TrimUpper(call.material), TrimUpper(call.temper)>>

CallConcat ==
    TrimUpper(call.spec) \o <<"-">> \o TrimUpper(call.material) \o <<"-">>
        \o TrimUpper(call.temper)

CallBare == TrimUpper(call.surface) = <<"B", "A", "R", "E">>

\* the base (uncorrected) bounds of the MaterialKey of the call
CallBase == IF CallKey \in DOMAIN _cond_idx THEN _cond_idx[CallKey] ELSE <<None, None>>

\* the table number the tabcode index holds for the call's key and surface
CallTabcode ==
    IF CallConcat \notin DOMAIN _tabcodes THEN None
    ELSE IF CallBare THEN _tabcodes[CallConcat].BARE ELSE _tabcodes[CallConcat].CLAD

\* first index of `axis` at the smallest absolute distance to x
FirstNearest(axis, x) ==
    CHOOSE k \in 1..Len(axis) :
        /\ \A m \in 1..Len(axis) : Abs(axis[k] - x) <= Abs(axis[m] - x)
        /\ \A m \in 1..(k - 1) : Abs(axis[m] - x) > Abs(axis[k] - x)

\* no table of the call's tabcode is loaded, or the cell the lookup selects
\* for the base bound b is absent
NoTableOrAbsentCell(b) ==
    \/ CallTabcode[1] \notin DOMAIN _corr_tables
    \/ LET Tb == _corr_tables[CallTabcode[1]]
       IN  /\ Tb.uncorr # <<>> /\ Tb.thicks # <<>>
           /\ FirstNearest(Tb.uncorr, b) <= Len(Tb.grid)
           /\ FirstNearest(Tb.thicks, call.thickness)
                <= Len(Tb.grid[FirstNearest(Tb.uncorr, b)])
           /\ Tb.grid[FirstNearest(Tb.uncorr, b)][FirstNearest(Tb.thicks, call.thickness)]
                = None

\* C1: in search_all, when a tabcode is present for the selected surface and
\* the base bound is present, but no correction table of that number is
\* loaded or the selected grid cell is absent, the corrected bound equals the
\* base bound.
C1_FallbackToBase ==
    (Searched /\ CallTabcode # None) =>
        /\ outcome.exc = ""
        /\ (CallBase[1] # None /\ NoTableOrAbsentCell(CallBase[1][1]))
              => outcome.val.CorrectedMin = CallBase[1]
        /\ (CallBase[2] # None /\ NoTableOrAbsentCell(CallBase[2][1]))
              => outcome.val.CorrectedMax = CallBase[2]

\* C2: in search_all, when the tabcode index has no entry for the composite
\* key, or the entry's table number for the surface is absent, CorrectedMin
\* and CorrectedMax are exactly the base min and max of the MaterialKey,
\* whatever correction tables are loaded.
C2_NoTabcodeIdentity ==
    (Searched /\ CallTabcode = None) =>
        /\ outcome.exc = ""
        /\ outcome.val.CorrectedMin = CallBase[1]
        /\ outcome.val.CorrectedMax = CallBase[2]

\* a clad query of a key whose bare tabcode names a loaded table while its
\* clad tabcode is absent, with both base bounds present
C2_Witness ==
    /\ Searched /\ CallTabcode = None /\ ~CallBare
    /\ CallConcat \in DOMAIN _tabcodes
    /\ _tabcodes[CallConcat].BARE # None
    /\ _tabcodes[CallConcat].BARE[1] \in DOMAIN _corr_tables
    /\ CallBase[1] # None /\ CallBase[2] # None
    /\ outcome.val.CorrectedMin = CallBase[1]

\* the argument texts of the model and their trimmed, uppercased forms
WithNormal(S) == S \cup {TrimUpper(x) : x \in S}

\* C5: search_all is insensitive to letter case and surrounding whitespace of
\* spec, material, temper and surface: argument tuples whose tokens are equal
\* after trim + uppercase (same thickness) give the same result and the same
\* composite key SPEC-MATERIAL-TEMPER, and normalising twice equals
\* normalising once.
C5_CaseWhitespaceInsensitive ==
    Searched =>
        /\ \A spec2 \in WithNormal(QuerySpecs), material2 \in WithNormal(QueryMaterials),
              temper2 \in WithNormal(QueryTempers), surface2 \in WithNormal(QuerySurfaces) :
              ( /\ TrimUpper(spec2) = TrimUpper(call.spec)
                /\ TrimUpper(material2) = TrimUpper(call.material)
                /\ TrimUpper(temper2) = TrimUpper(call.temper)
                /\ TrimUpper(surface2) = TrimUpper(call.surface) )
              => /\ search_all(Self, spec2, material2, temper2, call.thickness, surface2)
                      = outcome
                 /\ CompositeKey(spec2, material2, temper2) = CallConcat
                 /\ CompositeKey(call.spec, call.material, call.temper) = CallConcat
        /\ \A x \in {call.spec, call.material, call.temper, call.surface} :
              _norm(_norm(x)) = _norm(x)

\* a query in lower case with surrounding blanks that finds its conductivity
\* range and its hardness requirement
C5_Witness ==
    /\ Searched
    /\ call.spec # TrimUpper(call.spec) /\ Strip(call.spec) # call.spec
    /\ call.temper # TrimUpper(call.temper)
    /\ call.surface # TrimUpper(call.surface) /\ Strip(call.surface) # call.surface
    /\ outcome.exc = ""
    /\ outcome.val.CorrectedMin # None
    /\ outcome.val.HardnessMin # None

\* the hardness series search_all selects for the call (None when the
\* composite key is unknown to the family)
CallSeries(bare_family, clad_family) ==
    LET family == IF CallBare THEN bare_family ELSE clad_family
    IN  IF CallConcat \in DOMAIN family THEN Some(family[CallConcat]) ELSE None

TableLoaded == CallTabcode # None /\ CallTabcode[1] \in DOMAIN _corr_tables

TableHasEmptyPart ==
    /\ TableLoaded
    /\ LET Tb == _corr_tables[CallTabcode[1]]
       IN  Tb.uncorr = <<>> \/ Tb.thicks = <<>> \/ Tb.grid = <<>>

\* C6: search_all never raises, whatever the built indices hold: an unknown
\* MaterialKey, an unknown composite key, a tabcode with no loaded table, an
\* empty hardness series and a table with an empty axis or grid all yield
\* absent fields, and a key found in none of the conductivity index and the
\* four hardness families yields four absent fields.
C6_NeverRaises ==
    Searched =>
        /\ outcome.exc = ""
        /\ CallKey \notin DOMAIN _cond_idx
              => outcome.val.CorrectedMin = None /\ outcome.val.CorrectedMax = None
        /\ CallSeries(_bare_min, _clad_min) \in {None, Some(<<>>)}
              => outcome.val.HardnessMin = None
        /\ CallSeries(_bare_max, _clad_max) \in {None, Some(<<>>)}
              => outcome.val.HardnessMax = None
        /\ (CallTabcode # None /\ (~TableLoaded \/ TableHasEmptyPart))
              => outcome.val.CorrectedMin = None /\ outcome.val.CorrectedMax = None
        /\ ( /\ CallKey \notin DOMAIN _cond_idx
             /\ CallConcat \notin DOMAIN _bare_min \cup DOMAIN _bare_max
                                   \cup DOMAIN _clad_min \cup DOMAIN _clad_max )
              => outcome.val = [CorrectedMin |-> None, CorrectedMax |-> None,
                                HardnessMin |-> None, HardnessMax |-> None]

\* a query with a base bound whose tabcode names a loaded table with an empty
\* axis or grid, answered without an exception
C6_Witness ==
    /\ Searched /\ TableHasEmptyPart /\ CallBase[1] # None
    /\ outcome.exc = ""
    /\ outcome.val.CorrectedMin = None

\* a query of a key that no index knows, answered with four absent fields
C6_WitnessUnknown ==
    /\ Searched
    /\ CallKey \notin DOMAIN _cond_idx
    /\ CallConcat \notin DOMAIN _bare_min \cup DOMAIN _clad_min
    /\ outcome = Ret([CorrectedMin |-> None, CorrectedMax |-> None,
                      HardnessMin |-> None, HardnessMax |-> None])

\* the indices __init__ builds from the data files
BuiltStore ==
    [cond_idx |-> _build_conductivity_index(data_dir.conductivity).val,
     bare_min |-> _build_hardness_table(data_dir.bare_min),
     bare_max |-> _build_hardness_table(data_dir.bare_max),
     clad_min |-> _build_hardness_table(data_dir.clad_min),
     clad_max |-> _build_hardness_table(data_dir.clad_max),
     tabcodes |-> _load_tabcodes(data_dir.tabcodes).val,
     corr_tables |-> _load_correction_tables(data_dir.corr)]

\* C8: once initialization has completed, no search_all call and no
\* enumeration-helper call changes any index, so a query's result is the
\* result over the indices as built, at whatever point it is made.
C8_IndicesImmutable ==
    /\ [][pc = "ready" => (pc' = "ready" /\ indexVars' = indexVars)]_vars
    /\ [](pc = "ready" => Self = BuiltStore)
    /\ [](Searched => outcome = search_all(BuiltStore, call.spec, call.material,
                                           call.temper, call.thickness, call.surface))

\* a search answered from non-empty indices after initialization
C8_Witness ==
    /\ Searched
    /\ _tabcodes # <<>> /\ _corr_tables # <<>>
    /\ outcome.exc = ""
    /\ outcome.val.CorrectedMin # None /\ outcome.val.CorrectedMin # CallBase[1]
    /\ outcome.val.HardnessMax # None

(***************************************************************************)
(* Specification SpecLookup: one call of _nearest_value on a hardness      *)
(* series, or one call of _correct_iacs on a loaded correction table.      *)
(* Thicknesses and axis points are small numbers of millionths, so that    *)
(* entries within the tolerance, equidistant entries and distant entries   *)
(* all occur.  A series is sorted by thickness, as the builder leaves it.  *)
(***************************************************************************)
MaxLen == 3
MaxT == 4
MaxAxis == 2
MaxAxisVal == 2

Requirements == {None, Some(<<"A">>), Some(<<"B">>)}

IsSorted(pairs) == \A k \in 1..(Len(pairs) - 1) : pairs[k][1] <= pairs[k + 1][1]

SeriesOfLen(n) == {p \in [1..n -> (0..MaxT) \X Requirements] : IsSorted(p)}

AllSeries == UNION {SeriesOfLen(n) : n \in 0..MaxLen}

AxesOfLen(n) == [1..n -> 0..MaxAxisVal]

AllAxes == UNION {AxesOfLen(n) : n \in 1..MaxAxis}

\* a loaded table over the two axes: one grid row per uncorrected point, one
\* cell per thickness point, the cell telling its place, some cells absent
TableOver(unc, ths) ==
    [uncorr |-> unc, thicks |-> ths,
     grid |-> [r \in 1..Len(unc) |->
                 [c \in 1..Len(ths) |->
                    IF (r + c) % 3 = 0 THEN None ELSE Some(10 * r + c)]]]

\* the table of the documented scenario: axes [25,30,35] and [0.02,0.04],
\* grid [[1,2],[3,4],[5,6]]
ExampleTable == CorrTableOf(CorrFile3A)

ExampleCall ==
    [fn |-> "_correct_iacs", table_no |-> 3, base_iacs |-> 30 * Scale,
     thickness |-> 40000]

InitLookup ==
    /\ \/ /\ \E pairs \in AllSeries, thickness \in 0..MaxT :
               call = [fn |-> "_nearest_value", pairs |-> pairs, thickness |-> thickness]
          /\ _corr_tables = <<>>
       \/ /\ \E unc \in AllAxes, ths \in AllAxes :
               _corr_tables = [n \in {3} |-> TableOver(unc, ths)]
          /\ \E base_iacs \in 0..MaxAxisVal, thickness \in 0..MaxAxisVal :
               call = [fn |-> "_correct_iacs", table_no |-> 3,
                       base_iacs |-> base_iacs, thickness |-> thickness]
       \/ /\ _corr_tables = [n \in {3} |-> ExampleTable]
          /\ call = ExampleCall
    /\ outcome = Pending
    /\ data_dir = <<>> /\ pc = "idle"
    /\ _cond_idx = <<>> /\ _bare_min = <<>> /\ _bare_max = <<>>
    /\ _clad_min = <<>> /\ _clad_max = <<>> /\ _tabcodes = <<>>
    /\ LoaderIdle

NearestValueCall ==
    /\ outcome = Pending
    /\ call.fn = "_nearest_value"
    /\ outcome' = Ret(_nearest_value(call.pairs, call.thickness))
    /\ UNCHANGED <<storeVars, call, loaderVars>>

CorrectIacsCall ==
    /\ outcome = Pending
    /\ call.fn = "_correct_iacs"
    /\ outcome' = _correct_iacs(_corr_tables, call.table_no, call.base_iacs,
                                call.thickness)
    /\ UNCHANGED <<storeVars, call, loaderVars>>

NextLookup == NearestValueCall \/ CorrectIacsCall

SpecLookup == InitLookup /\ [][NextLookup]_vars

\* the entries of the call's series within the tolerance of the query
Matches == {k \in 1..Len(call.pairs) : Abs(call.pairs[k][1] - call.thickness) <= tol}

PresentMatches == {k \in Matches : call.pairs[k][2] # None}

Least(S) == CHOOSE k \in S : \A m \in S : k <= m

\* the first entry, in series order, at the smallest distance to the query
Closest ==
    Least({k \in 1..Len(call.pairs) :
             \A m \in 1..Len(call.pairs) :
                Abs(call.pairs[k][1] - call.thickness)
                    <= Abs(call.pairs[m][1] - call.thickness)})

NearestValueReturned == call.fn = "_nearest_value" /\ outcome # Pending

\* C3: _nearest_value returns (1) when entries lie within 1e-6 of the query,
\* the value of the first of them, in series order, whose requirement is
\* present, or the absent value when all of them are absent; (2) otherwise
\* the value of the entry at the smallest absolute distance, the first in
\* series order among equidistant ones; (3) absent for an empty series.
C3_NearestValue ==
    NearestValueReturned =>
        /\ outcome.exc = ""
        /\ PresentMatches # {} => outcome.val = call.pairs[Least(PresentMatches)][2]
        /\ (Matches # {} /\ PresentMatches = {}) => outcome.val = None
        /\ (Matches = {} /\ call.pairs # <<>>) => outcome.val = call.pairs[Closest][2]
        /\ call.pairs = <<>> => outcome.val = None

\* a series whose first entry within the tolerance is absent and whose
\* nearest entry is not the first present one within the tolerance
C3_WitnessTolerance ==
    /\ NearestValueReturned
    /\ PresentMatches # {}
    /\ Least(Matches) # Least(PresentMatches)
    /\ Closest # Least(PresentMatches)
    /\ call.pairs[Closest][2] # outcome.val
    /\ outcome.val = call.pairs[Least(PresentMatches)][2]

\* no entry within the tolerance and two equidistant nearest entries with
\* different values
C3_WitnessTie ==
    /\ NearestValueReturned
    /\ Matches = {}
    /\ \E m \in 1..Len(call.pairs) :
          /\ m # Closest
          /\ Abs(call.pairs[m][1] - call.thickness)
                = Abs(call.pairs[Closest][1] - call.thickness)
          /\ call.pairs[m][2] # call.pairs[Closest][2]
    /\ outcome.val = call.pairs[Closest][2]

CorrectIacsReturned == call.fn = "_correct_iacs" /\ outcome # Pending

\* C4: for a loaded table with non-empty axes, _correct_iacs returns the grid
\* cell at (ri, ci), ri the first index of the uncorrected axis at the
\* smallest absolute distance to the base bound and ci the first index of
\* the thickness axis at the smallest absolute distance to the thickness,
\* without tolerance snapping; the documented table gives 4 for base 30.0
\* and thickness 0.04.
C4_CorrectionLookup ==
    CorrectIacsReturned =>
        LET Tb == _corr_tables[call.table_no]
        IN  /\ outcome = Ret(Tb.grid[FirstNearest(Tb.uncorr, call.base_iacs)]
                                    [FirstNearest(Tb.thicks, call.thickness)])
            /\ call = ExampleCall => outcome = Ret(Some(4 * Scale))

\* a lookup in which both axes hold two equidistant nearest points and the
\* selected cell is present
C4_Witness ==
    /\ CorrectIacsReturned
    /\ LET Tb == _corr_tables[call.table_no]
           ri == FirstNearest(Tb.uncorr, call.base_iacs)
           ci == FirstNearest(Tb.thicks, call.thickness)
       IN  /\ \E m \in 1..Len(Tb.uncorr) :
                 /\ m > ri
                 /\ Abs(Tb.uncorr[m] - call.base_iacs) = Abs(Tb.uncorr[ri] - call.base_iacs)
           /\ \E m \in 1..Len(Tb.thicks) :
                 /\ m > ci
                 /\ Abs(Tb.thicks[m] - call.thickness) = Abs(Tb.thicks[ci] - call.thickness)
                 /\ Tb.thicks[m] # Tb.thicks[ci]
           /\ outcome.val # None
           /\ outcome.val = Tb.grid[ri][ci]

\* the documented scenario answered with 4
C4_WitnessExample == CorrectIacsReturned /\ call = ExampleCall /\ outcome = Ret(Some(4 * Scale))

(***************************************************************************)
(* Specification SpecCorr: _load_correction_tables on one file, 1.txt,     *)
(* stepped through its loop over the rows.  lpc is the position: "open"    *)
(* before the file is read, "body" in the loop over rows[1:], "stored"     *)
(* after self._corr_tables[n] is assigned, "skipped" for a blank file.     *)
(***************************************************************************)
MaxCorrRows == 3

CorrRowPool ==
    { <<<<"x">>, <<"0", ".", "0", "2">>, <<"0", ".", "0", "4">>>>,
      <<<<"x">>, <<"0", ".", "0", "2">>, <<"n">>, <<"0", ".", "0", "4">>>>,
      <<<<"2", "5">>, <<"1">>, <<"2">>>>,
      <<<<"3", "0">>, <<"3">>>>,
      <<<<"3", "5">>, <<"5">>, <<>>, <<"7">>>>,
      <<<<"z", "z">>, <<"1">>, <<"2">>>>,
      <<<<>>, <<>>>> }

SeqsUpTo(S, n) == UNION {[1..k -> S] : k \in 0..n}

InitCorr ==
    /\ rows \in SeqsUpTo(CorrRowPool, MaxCorrRows)
    /\ lpc = "open"
    /\ i = 0 /\ T = EmptyT
    /\ header_idx = 0 /\ thickness_row = None /\ thickness_col = None
    /\ concat_cols = <<>> /\ table = <<>>
    /\ StoreIdle
    /\ call = [fn |-> "_load_correction_tables"]
    /\ outcome = Pending

\* rows read and blank rows dropped; the header gives the thickness axis
CorrOpen ==
    /\ lpc = "open"
    /\ rows' = NonBlankRows(rows)
    /\ IF rows' = <<>>
       THEN /\ lpc' = "skipped"
            /\ outcome' = Ret(None)
            /\ UNCHANGED <<i, T>>
       ELSE /\ lpc' = "body"
            /\ i' = 2
            /\ T' = [uncorr |-> <<>>, thicks |-> HeaderThicks(rows'[1], 2), grid |-> <<>>]
            /\ UNCHANGED outcome
    /\ UNCHANGED <<storeVars, call, header_idx, thickness_row, thickness_col,
                   concat_cols, table>>

CorrBodyRow ==
    /\ lpc = "body"
    /\ i <= Len(rows)
    /\ T' = CorrRowStep(T, rows[i])
    /\ i' = i + 1
    /\ UNCHANGED <<storeVars, call, outcome, rows, lpc, header_idx, thickness_row,
                   thickness_col, concat_cols, table>>

CorrStore ==
    /\ lpc = "body"
    /\ i > Len(rows)
    /\ _corr_tables' = Put(_corr_tables, 1, T)
    /\ lpc' = "stored"
    /\ outcome' = Ret(None)
    /\ UNCHANGED <<data_dir, _cond_idx, _bare_min, _bare_max, _clad_min, _clad_max,
                   _tabcodes, pc, call, rows, i, T, header_idx, thickness_row,
                   thickness_col, concat_cols, table>>

NextCorr == CorrOpen \/ CorrBodyRow \/ CorrStore

SpecCorr == InitCorr /\ [][NextCorr]_vars

\* a row after the header that the loader can store: its first cell parses
\* and it has a cell for every point of the thickness axis
Storable(r, thicks) ==
    /\ Len(r) > 0 /\ _to_float(r[1]) # None
    /\ Len(r) - 1 >= Len(thicks)

StorableRows(upto) ==
    SelectSeq(SubSeq(rows, 2, upto), LAMBDA r : Storable(r, T.thicks))

ShapeOk(Tb) ==
    /\ Len(Tb.grid) = Len(Tb.uncorr)
    /\ \A r \in 1..Len(Tb.grid) : Len(Tb.grid[r]) = Len(Tb.thicks)

\* C7: every stored correction table has as many grid rows as uncorrected
\* axis points and every grid row as long as the thickness axis, whatever the
\* rows of the file; a row that cannot satisfy this is dropped, and the rows
\* after it that can are still loaded.
C7_GridShape ==
    /\ \A n \in DOMAIN _corr_tables : ShapeOk(_corr_tables[n])
    /\ lpc \in {"body", "stored"} =>
          /\ ShapeOk(T)
          /\ Len(T.uncorr) = Len(StorableRows(i - 1))
          /\ \A k \in 1..Len(T.uncorr) :
                /\ T.uncorr[k] = _to_float(StorableRows(i - 1)[k][1])[1]
                /\ \A c \in 1..Len(T.thicks) :
                      T.grid[k][c] = _to_float(StorableRows(i - 1)[k][c + 1])
    /\ lpc = "stored" => (i = Len(rows) + 1 /\ _corr_tables[1] = T)

\* a stored table whose file holds a row with too few cells followed by a
\* row that is loaded
C7_Witness ==
    /\ lpc = "stored"
    /\ T.thicks # <<>>
    /\ \E k \in 2..Len(rows), m \in 2..Len(rows) :
          /\ k < m
          /\ _to_float(rows[k][1]) # None /\ Len(rows[k]) - 1 < Len(T.thicks)
          /\ Storable(rows[m], T.thicks)
    /\ Len(_corr_tables[1].grid) = 1

\* a stored table with a row of too many cells, kept up to the axis length
C7_WitnessLongRow ==
    /\ lpc = "stored"
    /\ \E k \in 2..Len(rows) :
          Storable(rows[k], T.thicks) /\ Len(rows[k]) - 1 > Len(T.thicks)
    /\ Len(T.thicks) = 2

\* the columns of the header, after the first, whose cell parses: column
\* HeaderColumns(header)[j] is the one the axis point thicks[j] was parsed from
HeaderColumns(header) ==
    SelectSeq([k \in 1..Len(header) |-> k],
              LAMBDA k : k > 1 /\ _to_float(header[k]) # None)

\* the row of the file that the k-th stored row of the table was read from
StoredFrom(k) == StorableRows(i - 1)[k]

\* C11: in every correction table the loader builds and stores, thicks[j] is
\* the parsed header cell of some column, and grid[r][j] is the parsed value
\* of the cell that the stored row's file row has in that same column, also
\* when the header holds non-numeric cells that the thickness axis skips.
C11_ColumnAlignment ==
    lpc \in {"body", "stored"} =>
        LET cols == HeaderColumns(rows[1])
        IN  /\ Len(T.thicks) = Len(cols)
            /\ \A j \in 1..Len(cols) : <<T.thicks[j]>> = _to_float(rows[1][cols[j]])
            /\ \A r \in 1..Len(T.grid) : \A j \in 1..Len(cols) :
                  cols[j] <= Len(StoredFrom(r)) =>
                      T.grid[r][j] = _to_float(StoredFrom(r)[cols[j]])

(***************************************************************************)
(* Specification SpecHard: _build_hardness_table on one file, stepped      *)
(* through its loop over the rows.  lpc is the position: "detect" before   *)
(* the structural detection, "body" in the loop over rows[data_start:],    *)
(* "done" after the sort, when the table is returned.                      *)
(***************************************************************************)
MaxHardRows == 3

HeaderRow5 == <<<<>>, <<>>, <<"A", "-", "B", "-", "C">>, <<"a", "-", "b", "-", "c", " ">>, <<"A", "-", "B", "-", "D">>, <<"-", "-">>, <<"A", "-", "-">>>>

HeaderRow2 == <<<<"A", "-", "B", "-", "C">>, <<"t">>, <<"A", "-", "B", "-", "D">>>>

ThicknessLabelRow == <<<<>>, <<"T", "h", "i", "c", "k", "n", "e", "s", "s">>>>

\* what precedes the body rows of a file
HardPrefixes ==
    { <<HeaderRow5, ThicknessLabelRow>>,
      <<ThicknessLabelRow, HeaderRow5>>,
      <<HeaderRow5>>,
      <<HeaderRow2, ThicknessLabelRow>>,
      <<>> }

HardRowPool ==
    { <<<<"a">>, <<"0", ".", "0", "4">>, <<"1", "5">>, <<"1", "6">>>>,
      <<<<"b">>, <<"0", ".", "0", "2">>, <<>>, <<" ", "1", "2", " ">>, <<"z", "z">>, <<>>, <<"9">>>>,
      <<<<"c">>, <<"n", "/", "a">>, <<"9", "9">>>>,
      <<<<"d">>>>,
      <<<<"2">>, <<"0", ".", "0", "4">>, <<"1", "7">>, <<"1", "8">>, <<"1", "9">>>>,
      <<<<"3">>, <<"4">>, <<"5">>>> }

InitHard ==
    /\ \E prefix \in HardPrefixes, body \in SeqsUpTo(HardRowPool, MaxHardRows) :
          rows = prefix \o body
    /\ lpc = "detect"
    /\ i = 0 /\ T = EmptyT
    /\ header_idx = 0 /\ thickness_row = None /\ thickness_col = None
    /\ concat_cols = <<>> /\ table = <<>>
    /\ StoreIdle
    /\ call = [fn |-> "_build_hardness_table"]
    /\ outcome = Pending

\* header row, thickness row, thickness column and composite-key columns
HardDetect ==
    /\ lpc = "detect"
    /\ IF rows = <<>>
       THEN /\ lpc' = "done"
            /\ outcome' = Ret(<<>>)
            /\ UNCHANGED <<i, header_idx, thickness_row, thickness_col, concat_cols, table>>
       ELSE /\ header_idx' = HeaderIdx(rows)
            /\ thickness_row' = ThicknessRow(rows)
            /\ thickness_col' = ThicknessCol(rows, thickness_row')
            /\ concat_cols' = ConcatCols(rows[header_idx'])
            /\ i' = DataStart(header_idx', thickness_row')
            /\ table' = EmptyTable(concat_cols')
            /\ lpc' = "body"
            /\ UNCHANGED outcome
    /\ UNCHANGED <<storeVars, call, rows, T>>

HardBodyRow ==
    /\ lpc = "body"
    /\ i <= Len(rows)
    /\ table' = HardRowStep(table, rows[i], thickness_col, concat_cols)
    /\ i' = i + 1
    /\ UNCHANGED <<storeVars, call, outcome, rows, lpc, T, header_idx, thickness_row,
                   thickness_col, concat_cols>>

HardFinalize ==
    /\ lpc = "body"
    /\ i > Len(rows)
    /\ table' = SortTable(table)
    /\ lpc' = "done"
    /\ outcome' = Ret(table')
    /\ UNCHANGED <<storeVars, call, rows, i, T, header_idx, thickness_row,
                   thickness_col, concat_cols>>

NextHard == HardDetect \/ HardBodyRow \/ HardFinalize

SpecHard == InitHard /\ [][NextHard]_vars

\* the entries of a series at thickness t, in series order
AtThickness(pairs, t) == SelectSeq(pairs, LAMBDA e : e[1] = t)

\* out holds the entries of inp, all of them, ascending by thickness, those
\* of equal thickness in the order they have in inp
StableSortOf(out, inp) ==
    /\ Len(out) = Len(inp)
    /\ IsSorted(out)
    /\ \A k \in 1..Len(inp) : AtThickness(out, inp[k][1]) = AtThickness(inp, inp[k][1])

\* C9: every hardness series returned by _build_hardness_table is sorted
\* ascending by thickness, keeps every entry, entries sharing a thickness
\* included, and keeps entries of equal thickness in the order in which
\* they were encountered in the file.
C9_StableSorted ==
    [][(lpc = "body" /\ lpc' = "done") =>
          /\ DOMAIN table' = DOMAIN table
          /\ \A key \in DOMAIN table : StableSortOf(table'[key], table[key])
          /\ outcome' = Ret(table')]_vars

\* the thickness of the body rows read, in file order
RowThicknesses ==
    LET body == SubSeq(rows, DataStart(header_idx, thickness_row), Len(rows))
        read == SelectSeq(body, LAMBDA r : RowThickness(r, thickness_col) # None)
    IN  [k \in 1..Len(read) |-> RowThickness(read[k], thickness_col)[1]]

\* a returned series of a file whose thicknesses descend somewhere and
\* repeat, the entries of the repeated thickness differing in value
C9_Witness ==
    /\ lpc = "done" /\ rows # <<>>
    /\ \E k \in 1..(Len(RowThicknesses) - 1) : RowThicknesses[k] > RowThicknesses[k + 1]
    /\ \E key \in DOMAIN table :
          /\ Len(table[key]) = Len(RowThicknesses)
          /\ \E a \in 1..Len(table[key]), b \in 1..Len(table[key]) :
                /\ a < b
                /\ table[key][a][1] = table[key][b][1]
                /\ table[key][a][2] # table[key][b][2]

\* the columns of the header whose composite key is key, ascending
ColumnsOf(key) ==
    LET cols == {ci \in DOMAIN concat_cols : concat_cols[ci] = key}
        RECURSIVE Asc(_)
        Asc(S) == IF S = {} THEN <<>> ELSE <<Least(S)>> \o Asc(S \ {Least(S)})
    IN  Asc(cols)

\* the thickness cell of row r is in range and parses as a float
HasThickness(r) ==
    /\ thickness_col # None
    /\ thickness_col[1] <= Len(r)
    /\ _to_float(r[thickness_col[1]]) # None

\* the entry row r gives column ci: its thickness and its trimmed cell,
\* absent when the cell is empty or missing
EntryOf(r, ci) ==
    << _to_float(r[thickness_col[1]])[1],
       IF ci > Len(r) \/ Strip(r[ci]) = <<>> THEN None ELSE Some(Strip(r[ci])) >>

\* C10: body extraction starts at the row after the detected thickness row,
\* or after the header row when no thickness row was found; each row whose
\* thickness cell is in range and parses as a float appends one (thickness,
\* trimmed cell or absent) entry per composite-key column to the series of
\* that column, and every other row appends nothing.
C10_BodyExtraction ==
    [][ /\ (lpc = "detect" /\ lpc' = "body") =>
              /\ i' = IF thickness_row' # None THEN thickness_row'[1] + 1
                      ELSE header_idx' + 1
              /\ \A key \in DOMAIN table' : table'[key] = <<>>
              /\ DOMAIN table' = {concat_cols'[ci] : ci \in DOMAIN concat_cols'}
        /\ (lpc = "body" /\ lpc' = "body") =>
              /\ i' = i + 1
              /\ DOMAIN table' = DOMAIN table
              /\ IF HasThickness(rows[i])
                 THEN \A key \in DOMAIN table :
                        /\ Len(table'[key]) = Len(table[key]) + Len(ColumnsOf(key))
                        /\ SubSeq(table'[key], 1, Len(table[key])) = table[key]
                        /\ \A k \in 1..Len(ColumnsOf(key)) :
                              table'[key][Len(table[key]) + k]
                                 = EntryOf(rows[i], ColumnsOf(key)[k])
                 ELSE table' = table
        /\ (lpc = "body" /\ lpc' = "done") => i = Len(rows) + 1
      ]_vars

\* a file whose body was read to its end: a row was skipped, a row gave an
\* absent value, and a key with two columns got two entries from one row
C10_Witness ==
    /\ lpc = "body" /\ i = Len(rows) + 1
    /\ thickness_row # None
    /\ \E k \in DataStart(header_idx, thickness_row)..Len(rows) : ~HasThickness(rows[k])
    /\ \E k \in DataStart(header_idx, thickness_row)..Len(rows) : HasThickness(rows[k])
    /\ \E key \in DOMAIN table :
          /\ Len(ColumnsOf(key)) = 2
          /\ Len(table[key]) = 2 * Len(RowThicknesses)
          /\ \E k \in 1..Len(table[key]) : table[key][k][2] = None
          /\ \E k \in 1..Len(table[key]) : table[key][k][2] # None

====
